---- MODULE Spec2Model ----
(***************************************************************************)
(* The chunk-analysis pipeline of CodebaseLLM:                             *)
(*   LLMIntegration.analyze_code_chunk / analyze_code_chunk_async          *)
(*     (retry with exponential backoff around one oracle call),            *)
(*   KnowledgeExtractor.extract (thread pool + as_completed) and           *)
(*   KnowledgeExtractor.extract_async (semaphore + gather).                *)
(* Text (exception messages, oracle responses, note texts) is a sequence   *)
(* of one-character strings, so that substring tests, lower-casing and     *)
(* the regular expressions of _clean_json_string are computed.             *)
(***************************************************************************)
EXTENDS Integers, Sequences, FiniteSets, TLC

\* ---------------------------------------------------------------- bounds
MaxChunks == 2
MaxWorkers == 2
\* the longest text, in characters, of those the normalization is run on
\* exhaustively
MaxLen == 4
\* the threads that call RepoCloner.clone
MaxThreads == 3

\* ------------------------------------------------------ program constants
\* analyze_code_chunk(self, chunk, max_retries: int = 5, base_delay: float = 5.0)
max_retries == 5
base_delay == 5

\* ------------------------------------------------------------------ text
UpperToLower ==
  [A |-> "a", B |-> "b", C |-> "c", D |-> "d", E |-> "e", F |-> "f", G |-> "g",
   H |-> "h", I |-> "i", J |-> "j", K |-> "k", L |-> "l", M |-> "m", N |-> "n",
   O |-> "o", P |-> "p", Q |-> "q", R |-> "r", S |-> "s", T |-> "t", U |-> "u",
   V |-> "v", W |-> "w", X |-> "x", Y |-> "y", Z |-> "z"]

\* str.lower()
lower(s) ==
  [i \in 1..Len(s) |-> IF s[i] \in DOMAIN UpperToLower THEN UpperToLower[s[i]] ELSE s[i]]

\* pat in s
Contains(s, pat) ==
  \E i \in 1..(Len(s) - Len(pat) + 1) : SubSeq(s, i, i + Len(pat) - 1) = pat

\* the characters \s matches among those the model uses
Whitespace == {" ", "\n", "\t", "\r"}

T_rate_limit == <<"r","a","t","e"," ","l","i","m","i","t">>
T_429 == <<"4","2","9">>
T_rate_limit_exceeded == <<"r","a","t","e","_","l","i","m","i","t","_","e","x","c","e","e","d","e","d">>

\* A classifier that lower-cases the message for all three patterns.
IsRateLimitAllLower(err_msg) ==
  \/ Contains(lower(err_msg), T_rate_limit)
  \/ Contains(lower(err_msg), T_429)
  \/ Contains(lower(err_msg), T_rate_limit_exceeded)

\* A classifier that treats every exception as transient.
IsRateLimitAlways(err_msg) == TRUE

\* A classifier that forgets the "429" pattern.
IsRateLimitNo429(err_msg) ==
  \/ Contains(lower(err_msg), T_rate_limit)
  \/ Contains(err_msg, T_rate_limit_exceeded)

\* if 'rate limit' in err_msg.lower() or '429' in err_msg or 'rate_limit_exceeded' in err_msg
IsRateLimit(err_msg) ==
  \/ Contains(lower(err_msg), T_rate_limit)
  \/ Contains(err_msg, T_429)
  \/ Contains(err_msg, T_rate_limit_exceeded)

\* A backoff that grows linearly instead of doubling.
WaitTimeLinear(attempt) == base_delay * (attempt + 1)

\* wait_time = base_delay * (2 ** attempt)
WaitTime(attempt) == base_delay * (2 ^ attempt)

\* ------------------------------------------------- _clean_json_string
FirstIndex(s, ch) ==
  IF \E i \in 1..Len(s) : s[i] = ch
  THEN CHOOSE i \in 1..Len(s) : s[i] = ch /\ \A j \in 1..(i - 1) : s[j] # ch
  ELSE 0

LastIndex(s, ch) ==
  IF \E i \in 1..Len(s) : s[i] = ch
  THEN CHOOSE i \in 1..Len(s) : s[i] = ch /\ \A j \in (i + 1)..Len(s) : s[j] # ch
  ELSE 0

\* re.sub(r'^[^{]*', '', s): the leading run of characters other than '{' goes
StripBeforeBrace(s) ==
  LET i == FirstIndex(s, "{") IN IF i = 0 THEN <<>> ELSE SubSeq(s, i, Len(s))

\* re.sub(r'[^}]*$', '', s): the trailing run of characters other than '}' goes
StripAfterBrace(s) ==
  LET i == LastIndex(s, "}") IN IF i = 0 THEN <<>> ELSE SubSeq(s, 1, i)

\* the first index >= i of s that holds no whitespace (Len(s) + 1 when none)
RECURSIVE SkipWhitespace(_, _)
SkipWhitespace(s, i) ==
  IF i <= Len(s) /\ s[i] \in Whitespace THEN SkipWhitespace(s, i + 1) ELSE i

\* A pattern without \s*: a comma right before the closing character.
CommaMatchesAdjacent(s, i) ==
  s[i] = "," /\ i + 1 <= Len(s) /\ s[i + 1] \in {"}", "]"}

\* re.sub(r',\s*([}\]])', r'\1', s): a match is a comma, the whitespace after
\* it and the closing character; the comma and the whitespace go.
CommaMatches(s, i) ==
  /\ s[i] = ","
  /\ LET j == SkipWhitespace(s, i + 1) IN j <= Len(s) /\ s[j] \in {"}", "]"}

CommaRemoved(s, i) ==
  \/ CommaMatches(s, i)
  \/ /\ s[i] \in Whitespace
     /\ \E k \in 1..(i - 1) :
          /\ CommaMatches(s, k)
          /\ \A m \in (k + 1)..i : s[m] \in Whitespace

RemoveTrailingCommas(s) ==
  LET kept == {i \in 1..Len(s) : ~CommaRemoved(s, i)}
  IN [n \in 1..Cardinality(kept) |->
        s[CHOOSE i \in kept : Cardinality({j \in kept : j <= i}) = n]]

\* str.strip()
RECURSIVE Strip(_)
Strip(s) ==
  IF s = <<>> THEN s
  ELSE IF s[1] \in Whitespace THEN Strip(Tail(s))
  ELSE IF s[Len(s)] \in Whitespace THEN Strip(SubSeq(s, 1, Len(s) - 1))
  ELSE s

_clean_json_string(s) ==
  Strip(RemoveTrailingCommas(StripAfterBrace(StripBeforeBrace(s))))

\* ------------------------------------------------------- JSON documents
\* A JSON value the oracle is asked for: a string, a list of method facts, or
\* null.  A JSON object (a Python dict) is a function from key names to values.
JStr(s) == [t |-> "str", s |-> s, items |-> <<>>]
JList(xs) == [t |-> "list", s |-> <<>>, items |-> xs]
JNull == [t |-> "null", s |-> <<>>, items |-> <<>>]

ResultKeys == {"overview", "methods", "complexity", "notes"}

KeyText ==
  [overview |-> <<"o","v","e","r","v","i","e","w">>,
   methods |-> <<"m","e","t","h","o","d","s">>,
   complexity |-> <<"c","o","m","p","l","e","x","i","t","y">>,
   notes |-> <<"n","o","t","e","s">>,
   error |-> <<"e","r","r","o","r">>,
   raw_response |-> <<"r","a","w","_","r","e","s","p","o","n","s","e">>]

KeyOrder == <<"overview", "methods", "complexity", "notes", "error", "raw_response">>

\* {"name": ..., "signature": ..., "description": ...}
MethodParse ==
  [name |-> <<"p","a","r","s","e">>, signature |-> <<"p","a","r","s","e","(",")">>,
   description |-> <<"p","a","r","s","e"," ","t","e","x","t">>]
MethodMain ==
  [name |-> <<"m","a","i","n">>, signature |-> <<"m","a","i","n","(",")">>,
   description |-> <<"e","n","t","r","y"," ","p","o","i","n","t">>]

\* The values the oracle gives the four keys.
MethodsValues ==
  {JList(<<>>), JList(<<MethodParse>>), JList(<<MethodParse, MethodParse>>),
   JList(<<MethodMain, MethodParse>>), JNull}

KeyValues(k) ==
  CASE k = "overview" -> {JStr(<<"x">>)}
    [] k = "complexity" -> {JStr(<<"l","o","w">>)}
    [] k = "notes" -> {JStr(<<"n">>)}
    [] k = "methods" -> MethodsValues

\* The objects the oracle answers with: every subset of the four keys, the
\* methods key with each of its values when it is the only key.
JsonDocs ==
  UNION { { d \in [ks -> UNION {KeyValues(k) : k \in ks}] :
              /\ \A k \in ks : d[k] \in KeyValues(k)
              /\ ("methods" \in ks /\ Cardinality(ks) > 1)
                   => d["methods"] = JList(<<MethodParse>>) } :
          ks \in SUBSET ResultKeys }

Quote(s) == <<"\"">> \o s \o <<"\"">>

RenderMethod(m) ==
  <<"{">> \o Quote(<<"n","a","m","e">>) \o <<":">> \o Quote(m.name) \o <<",">>
    \o Quote(<<"s","i","g","n","a","t","u","r","e">>) \o <<":">> \o Quote(m.signature) \o <<",">>
    \o Quote(<<"d","e","s","c","r","i","p","t","i","o","n">>) \o <<":">> \o Quote(m.description)
    \o <<"}">>

RECURSIVE RenderMethods(_, _)
RenderMethods(xs, i) ==
  IF i > Len(xs) THEN <<>>
  ELSE (IF i > 1 THEN <<",">> ELSE <<>>) \o RenderMethod(xs[i]) \o RenderMethods(xs, i + 1)

RenderValue(v) ==
  CASE v.t = "str" -> Quote(v.s)
    [] v.t = "null" -> <<"n","u","l","l">>
    [] v.t = "list" -> <<"[">> \o RenderMethods(v.items, 1) \o <<"]">>

\* The members of d, from the i-th key of KeyOrder on; first says whether a
\* member has been written yet.
RECURSIVE RenderMembers(_, _, _)
RenderMembers(d, i, first) ==
  IF i > Len(KeyOrder) THEN <<>>
  ELSE LET k == KeyOrder[i]
       IN IF k \in DOMAIN d
          THEN (IF first THEN <<>> ELSE <<",">>) \o Quote(KeyText[k]) \o <<":">>
                 \o RenderValue(d[k]) \o RenderMembers(d, i + 1, FALSE)
          ELSE RenderMembers(d, i + 1, first)

\* The JSON text of the object d.
Render(d) == <<"{">> \o RenderMembers(d, 1, TRUE) \o <<"}">>

\* What the JSON parser makes of the texts of JsonDocs.
ParseTable == [s \in {Render(d) : d \in JsonDocs} |-> CHOOSE d \in JsonDocs : Render(d) = s]

\* The parser's answer for a text: the parsed object, or the exception it raises.
NoException == [type |-> <<>>, msg |-> <<>>, origin |-> "none"]
EmptyDict == [k \in {} |-> JNull]

T_OutputParserException ==
  <<"O","u","t","p","u","t","P","a","r","s","e","r","E","x","c","e","p","t","i","o","n">>
T_Invalid_json_output ==
  <<"I","n","v","a","l","i","d"," ","j","s","o","n"," ","o","u","t","p","u","t",":"," ">>

\* parser.invoke(cleaned_content): the parsed object, or OutputParserException
\* whose message echoes the text it was given.
ParseJson(text) ==
  IF text \in DOMAIN ParseTable
  THEN [ok |-> TRUE, value |-> ParseTable[text], exc |-> NoException]
  ELSE [ok |-> FALSE, value |-> EmptyDict,
        exc |-> [type |-> T_OutputParserException, msg |-> T_Invalid_json_output \o text,
                origin |-> "parser"]]

\* ------------------------------------------------------------ the oracle
\* Exceptions self.llm.invoke raises.
ExcRateLimit ==
  [type |-> <<"R","a","t","e","L","i","m","i","t","E","r","r","o","r">>,
   msg |-> <<"R","a","t","e"," ","l","i","m","i","t"," ","r","e","a","c","h","e","d">>,
   origin |-> "call"]
Exc429 ==
  [type |-> <<"A","P","I","E","r","r","o","r">>,
   msg |-> <<"E","r","r","o","r"," ","c","o","d","e",":"," ","4","2","9">>,
   origin |-> "call"]
ExcQuota ==
  [type |-> <<"A","P","I","E","r","r","o","r">>,
   msg |-> <<"r","a","t","e","_","l","i","m","i","t","_","e","x","c","e","e","d","e","d">>,
   origin |-> "call"]
ExcUpperQuota ==
  [type |-> <<"A","P","I","E","r","r","o","r">>,
   msg |-> <<"R","A","T","E","_","L","I","M","I","T","_","E","X","C","E","E","D","E","D">>,
   origin |-> "call"]
ExcTimeout ==
  [type |-> <<"A","P","I","T","i","m","e","o","u","t","E","r","r","o","r">>,
   msg |-> <<"C","o","n","n","e","c","t","i","o","n"," ","t","i","m","e","d"," ","o","u","t">>,
   origin |-> "call"]

OracleExceptions == {ExcRateLimit, Exc429, ExcQuota, ExcUpperQuota, ExcTimeout}

FullDoc ==
  [overview |-> JStr(<<"x">>), methods |-> JList(<<MethodParse>>),
   complexity |-> JStr(<<"l","o","w">>), notes |-> JStr(<<"n">>)]

\* Texts the oracle answers with that are no bare JSON object: an object inside
\* other text, an object with a trailing comma, and two texts no parser takes.
TextNoisy == <<"n","o","i","s","e">> \o Render(FullDoc) \o <<"t","r","a","i","l","i","n","g">>
TextTrailingComma ==
  <<"{">> \o Quote(KeyText["overview"]) \o <<":">> \o Quote(<<"x">>) \o <<",", " ", "}">>
TextNotJson == <<"n","o","t"," ","j","s","o","n">>
TextBad429 == <<"{","4","2","9","}">>

RawResponses ==
  {Render(d) : d \in JsonDocs} \cup {TextNoisy, TextTrailingComma, TextNotJson, TextBad429}

\* What one call of self.llm.invoke(prompt) does: raise, or answer with a text.
OracleOutcomes ==
  {[kind |-> "raise", exc |-> e, raw |-> <<>>] : e \in OracleExceptions}
    \cup {[kind |-> "text", exc |-> NoException, raw |-> r] : r \in RawResponses}

\* ------------------------------------------------------------- the state
VARIABLES
  mode,         \* "sync": KnowledgeExtractor.extract; "async": extract_async;
                \* "batch": LLMIntegration.analyze_code_chunks_batch
  max_workers,  \* KnowledgeExtractor.max_workers
  code_chunks,  \* the argument of extract / extract_async
  st,           \* per chunk: "queued", "calling", "sleeping", "done", "failed",
                \* "cancelled"
  attempt,      \* per chunk: the local attempt of the invocation in flight
  result,       \* per chunk: what analyze_code_chunk returned or raised
  out,          \* per chunk (async): the list process_chunk_with_limit returned
  observe,      \* whether the history of each invocation is recorded:
  calls,        \*   the number of self.llm.invoke calls of the invocation
  sleeps,       \*   the wait times it slept, in order
  caught,       \*   the last exception its except clause caught
  folded,       \* (sync) the futures the as_completed loop has consumed
  knowledge,    \* the aggregate being built, but for its project_info
  phase,        \* of the run: "start", "indexed" (the vector store is built),
                \* "build_raised" (its build raised), "running", "returned",
                \* "raised", "exited"
  via_main,     \* whether main_async runs the pipeline, or extract(_async) is called
  readme,       \* README.md in TARGET_DIR: "absent", "present", "unreadable"
  project_info, \* knowledge["project_info"]
  readme_calls, \* the number of self.llm_integration.llm.invoke calls for the README
  summary_exc,  \* the exception the project summary step caught
  raw,          \* the argument of a call of _clean_json_string
  normalized,   \* what that call returned
  batch_results, \* the list analyze_code_chunks_batch builds
  cl_pc,        \* per thread, its place in RepoCloner.clone: "idle", "waiting",
                \* "locked", "cloning", "returned", "raised"
  cl_lock,      \* the holder of RepoCloner._lock, 0 when it is free
  target_exists, \* os.path.exists(self.target_dir)
  cl_clones,    \* the number of Repo.clone_from calls that created the target
  cl_failed,    \* the number of Repo.clone_from calls that raised
  cl_ret,       \* per thread, what clone returned
  cl_seen,      \* per thread, whether the target existed when it called clone
                \* (the directory of a clone in progress included)
  cl_git        \* per thread, what git has done to the target in its
                \* Repo.clone_from: "none", "written", "removed"

vars ==
  <<mode, max_workers, code_chunks, st, attempt, result, out, folded, knowledge,
    phase, observe, calls, sleeps, caught, via_main, readme, project_info,
    readme_calls, summary_exc, raw, normalized, batch_results, cl_pc, cl_lock,
    target_exists, cl_clones, cl_failed, cl_ret, cl_seen, cl_git>>

history == <<observe, calls, sleeps, caught>>

cloner == <<cl_pc, cl_lock, target_exists, cl_clones, cl_failed, cl_ret, cl_seen, cl_git>>

aux ==
  <<via_main, readme, project_info, readme_calls, summary_exc, raw, normalized,
    batch_results, cloner>>

Chunks == 1..Len(code_chunks)

\* read_and_chunk_codebase: chunk_index is the position in the split documents
ChunkInfo(i) ==
  [file |-> IF i = 1 THEN "a.py" ELSE "b.py", chunk_index |-> i - 1, chunk |-> i]

NoOutcome == [kind |-> "none", value |-> EmptyDict, exc |-> NoException]
ValueOutcome(d) == [kind |-> "value", value |-> d, exc |-> NoException]
ExcOutcome(e) == [kind |-> "exc", value |-> EmptyDict, exc |-> e]

\* ------------------------------------------- analyze_code_chunk(_async)
Digits == <<"0","1","2","3","4","5","6","7","8","9">>

RECURSIVE IntText(_)
IntText(n) ==
  IF n < 10 THEN <<Digits[n + 1]>> ELSE IntText(n \div 10) \o <<Digits[(n % 10) + 1]>>

\* {"error": f"Rate limit exceeded after {max_retries} retries."}
RateLimitExceeded ==
  [error |-> JStr(<<"R","a","t","e"," ","l","i","m","i","t"," ","e","x","c","e","e","d","e","d",
                    " ","a","f","t","e","r"," ">> \o IntText(max_retries)
                    \o <<" ","r","e","t","r","i","e","s",".">>)]

\* The body of the try: the oracle call, the cleaning and the parse.  It
\* returns the parsed object or raises the call's or the parser's exception.
TryBlock(o) ==
  IF o.kind = "raise"
  THEN ExcOutcome(o.exc)
  ELSE LET parsed == ParseJson(_clean_json_string(o.raw))
       IN IF parsed.ok THEN ValueOutcome(parsed.value) ELSE ExcOutcome(parsed.exc)

\* A loop test that admits one pass more.
LoopContinuesOffByOne(n) == n <= max_retries

\* while attempt < max_retries
LoopContinues(n) == n < max_retries

\* One pass of the try/except for the oracle outcome o: what the try block
\* gave, and whether the except clause takes the rate-limit branch.
Handle(o) ==
  LET r == TryBlock(o)
  IN [r |-> r, retry |-> r.kind = "exc" /\ IsRateLimit(r.exc.msg)]

HandleTable == [o \in OracleOutcomes |-> Handle(o)]

\* The invocations run in the threads of a ThreadPoolExecutor: extract, and
\* analyze_code_chunks_batch ("batch").
Threaded == mode \in {"sync", "batch"}

\* A pool that runs one worker more than configured.
SlotsOneMore == max_workers + 1

\* ThreadPoolExecutor(max_workers=self.max_workers);
\* asyncio.BoundedSemaphore(self.max_workers or 2)
Slots ==
  IF Threaded THEN max_workers
  ELSE IF max_workers = 0 THEN 2 ELSE max_workers

\* A count of the running invocations that leaves out those in backoff.
InFlightCallingOnly == {c \in Chunks : st[c] = "calling"}

\* The invocations that hold a worker thread or the semaphore.
InFlight == {c \in Chunks : st[c] \in {"calling", "sleeping"}}

\* The invocations run from the submission of the chunks on, and go on after
\* an exception of the function: the executor's exit waits for the worker
\* threads, and the tasks of extract_async keep their place in the event loop
\* until they end or are cancelled.
WorkersRun == phase \in {"running", "returned", "raised"}

\* ------------------------------------------------------- the aggregator
EmptyKnowledge == [overview |-> <<>>, methods |-> <<>>, complexity |-> <<>>, notes |-> <<>>]

\* _clean_json_string has not returned yet.
NotNormalized == [done |-> FALSE, text |-> <<>>]

\* The Python value of a JSON value: a str for a string.
PyValue(v) == IF v.t = "str" THEN v.s ELSE v

T_LLM_error == <<"L","L","M"," ","e","r","r","o","r",":"," ">>
T_Unknown == <<"U","n","k","n","o","w","n"," ","L","L","M"," ","r","e","s","p","o","n","s","e">>

\* A note that leaves out the exception's class.
ErrorTextNoType(e) == T_LLM_error \o e.msg

\* f"LLM error: {type(e).__name__}: {e}"
ErrorText(e) == T_LLM_error \o e.type \o <<":", " ">> \o e.msg

\* result.get('raw_response', result.get('error', 'Unknown LLM response'))
FallbackText(d) ==
  IF "raw_response" \in DOMAIN d THEN PyValue(d["raw_response"])
  ELSE IF "error" \in DOMAIN d THEN PyValue(d["error"])
  ELSE T_Unknown

\* An entry tagged with the chunk the submit loop reached last.
OverviewEntryLastChunk(ci, v) ==
  [file |-> code_chunks[Len(code_chunks)].file,
   chunk_index |-> code_chunks[Len(code_chunks)].chunk_index, overview |-> v]

OverviewEntry(ci, v) == [file |-> ci.file, chunk_index |-> ci.chunk_index, overview |-> v]
ComplexityEntry(ci, v) == [file |-> ci.file, chunk_index |-> ci.chunk_index, complexity |-> v]
NotesEntry(ci, v) == [file |-> ci.file, chunk_index |-> ci.chunk_index, notes |-> v]

\* A merge that keeps the methods of the result folded last.
AppendOverwrite(methods, items, i) == items

\* for method in result['methods']:
\*     if method not in knowledge['methods']: knowledge['methods'].append(method)
RECURSIVE AppendUnique(_, _, _)
AppendUnique(methods, items, i) ==
  IF i > Len(items) THEN methods
  ELSE AppendUnique(
         IF \E j \in 1..Len(methods) : methods[j] = items[i]
         THEN methods ELSE Append(methods, items[i]),
         items, i + 1)

\* An except branch that logs the failure and records nothing.
FoldExceptionLogOnly(k, ci, e) == k

\* extract, the except branch of future.result()
FoldException(k, ci, e) == [k EXCEPT !.notes = Append(@, NotesEntry(ci, ErrorText(e)))]

\* extract, the body of the as_completed loop after future.result() returned d.
\* raised: the iteration over result['methods'] raised TypeError.
FoldResult(k, ci, d) ==
  IF ResultKeys \cap DOMAIN d # {}
  THEN LET k1 == IF "overview" \in DOMAIN d
                 THEN [k EXCEPT !.overview = Append(@, OverviewEntry(ci, PyValue(d["overview"])))]
                 ELSE k
       IN IF "methods" \in DOMAIN d /\ d["methods"].t # "list"
          THEN [knowledge |-> k1, raised |-> TRUE]
          ELSE LET k2 == IF "methods" \in DOMAIN d
                         THEN [k1 EXCEPT !.methods = AppendUnique(@, d["methods"].items, 1)]
                         ELSE k1
                   k3 == IF "complexity" \in DOMAIN d
                         THEN [k2 EXCEPT !.complexity =
                                 Append(@, ComplexityEntry(ci, PyValue(d["complexity"])))]
                         ELSE k2
                   k4 == IF "notes" \in DOMAIN d
                         THEN [k3 EXCEPT !.notes = Append(@, NotesEntry(ci, PyValue(d["notes"])))]
                         ELSE k3
               IN [knowledge |-> k4, raised |-> FALSE]
  ELSE [knowledge |-> [k EXCEPT !.notes = Append(@, NotesEntry(ci, FallbackText(d)))],
        raised |-> FALSE]

\* extract_async: the items of process_chunk_with_limit
OverviewItem(ci, v) ==
  [type |-> "overview", file |-> ci.file, chunk_index |-> ci.chunk_index, overview |-> v]
ComplexityItem(ci, v) ==
  [type |-> "complexity", file |-> ci.file, chunk_index |-> ci.chunk_index, complexity |-> v]
NotesItem(ci, v) ==
  [type |-> "notes", file |-> ci.file, chunk_index |-> ci.chunk_index, notes |-> v]
\* {'type': 'methods', **method}
MethodItem(m) ==
  [type |-> "methods", name |-> m.name, signature |-> m.signature, description |-> m.description]

\* process_chunk_with_limit, the except branch
ProcessException(ci, e) == <<NotesItem(ci, ErrorText(e))>>

\* process_chunk_with_limit after analyze_code_chunk_async returned d.
\* raised: the iteration over result['methods'] raised TypeError.
ProcessResult(ci, d) ==
  LET o1 == IF "overview" \in DOMAIN d THEN <<OverviewItem(ci, PyValue(d["overview"]))>> ELSE <<>>
  IN IF "methods" \in DOMAIN d /\ d["methods"].t # "list"
     THEN [out |-> <<>>, raised |-> TRUE]
     ELSE LET o2 == IF "methods" \in DOMAIN d
                    THEN o1 \o [i \in 1..Len(d["methods"].items) |-> MethodItem(d["methods"].items[i])]
                    ELSE o1
              o3 == IF "complexity" \in DOMAIN d
                    THEN Append(o2, ComplexityItem(ci, PyValue(d["complexity"]))) ELSE o2
              o4 == IF "notes" \in DOMAIN d
                    THEN Append(o3, NotesItem(ci, PyValue(d["notes"]))) ELSE o3
          IN [out |-> IF o4 = <<>> THEN <<NotesItem(ci, FallbackText(d))>> ELSE o4,
              raised |-> FALSE]

\* for item in res: knowledge[item['type']].append(item)
RECURSIVE FoldItems(_, _, _)
FoldItems(k, items, i) ==
  IF i > Len(items) THEN k
  ELSE FoldItems(
         CASE items[i].type = "overview" -> [k EXCEPT !.overview = Append(@, items[i])]
           [] items[i].type = "methods" -> [k EXCEPT !.methods = Append(@, items[i])]
           [] items[i].type = "complexity" -> [k EXCEPT !.complexity = Append(@, items[i])]
           [] items[i].type = "notes" -> [k EXCEPT !.notes = Append(@, items[i])],
         items, i + 1)

\* A fold that takes the lists of the tasks last to first.
RECURSIVE FoldResultsReversed(_, _, _)
FoldResultsReversed(k, results, c) ==
  IF c > Len(results) THEN k
  ELSE FoldItems(FoldResultsReversed(k, results, c + 1), results[c], 1)

\* for res in results: ..., results in the order of the tasks
RECURSIVE FoldResults(_, _, _)
FoldResults(k, results, c) ==
  IF c > Len(results) THEN k ELSE FoldResults(FoldItems(k, results[c], 1), results, c + 1)

\* ------------------------------------------------- the project summary
\* A Python value: None, or a dict.
PyNone == [t |-> "none", d |-> EmptyDict]
PyDict(d) == [t |-> "dict", d |-> d]

\* A step that starts from no project info at all.
ProjectInfoNone == PyNone

\* project_info = {}
ProjectInfoDefault == PyDict(EmptyDict)

\* An except branch that gives up the project info and keeps no message.
ReadmeErrorDropped(e) == PyNone

\* project_info = {"readme_error": str(e)}
ReadmeError(e) == PyDict([readme_error |-> JStr(e.msg)])

\* open(readme_path, "r", encoding="utf-8") of a file that cannot be read
ExcRead ==
  [type |-> <<"P","e","r","m","i","s","s","i","o","n","E","r","r","o","r">>,
   msg |-> <<"[","E","r","r","n","o"," ","1","3","]"," ","P","e","r","m","i","s","s","i","o","n",
             " ","d","e","n","i","e","d",":"," ","'","r","e","p","o","/","R","E","A","D","M","E",
             ".","m","d","'">>,
   origin |-> "read"]

\* An exception of the oracle call that carries no message: str(e) is ''.
ExcNoMessage ==
  [type |-> <<"T","i","m","e","o","u","t","E","r","r","o","r">>, msg |-> <<>>, origin |-> "call"]

\* The object the README prompt asks for, and its JSON text.
ReadmeDoc ==
  [readme_summary |-> JStr(<<"s">>), main_features |-> JStr(<<"f">>), usage |-> JStr(<<"u">>)]
T_ReadmeJson ==
  <<"{","\"","r","e","a","d","m","e","_","s","u","m","m","a","r","y","\"",":","\"","s","\"",",",
    "\"","m","a","i","n","_","f","e","a","t","u","r","e","s","\"",":","\"","f","\"",",",
    "\"","u","s","a","g","e","\"",":","\"","u","\"","}">>

\* What self.llm_integration.llm.invoke(prompt) does for the README prompt.
ReadmeOutcomes ==
  {[kind |-> "raise", exc |-> e, raw |-> <<>>] : e \in {ExcRateLimit, ExcTimeout, ExcNoMessage}}
    \cup {[kind |-> "text", exc |-> NoException, raw |-> r] : r \in {T_ReadmeJson, TextNotJson}}

\* JsonOutputParser().parse(response.content): the text is parsed as it is,
\* _clean_json_string is not applied to it.
ParseReadme(text) ==
  IF Strip(text) = T_ReadmeJson
  THEN [ok |-> TRUE, value |-> ReadmeDoc, exc |-> NoException]
  ELSE [ok |-> FALSE, value |-> EmptyDict,
        exc |-> [type |-> T_OutputParserException, msg |-> T_Invalid_json_output \o text,
                origin |-> "parser"]]

\* The project summary step for the README situation rd and the oracle
\* outcome o: the project info, the number of oracle calls made, and the
\* exception the except clause caught.
SummaryStep(rd, o) ==
  IF rd = "absent" THEN [info |-> ProjectInfoDefault, calls |-> 0, exc |-> NoException]
  ELSE IF rd = "unreadable" THEN [info |-> ReadmeError(ExcRead), calls |-> 0, exc |-> ExcRead]
  ELSE IF o.kind = "raise" THEN [info |-> ReadmeError(o.exc), calls |-> 1, exc |-> o.exc]
  ELSE LET parsed == ParseReadme(o.raw)
       IN IF parsed.ok
          THEN [info |-> PyDict(parsed.value), calls |-> 1, exc |-> NoException]
          ELSE [info |-> ReadmeError(parsed.exc), calls |-> 1, exc |-> parsed.exc]

\* main_async: if not code_chunks
NoChunks(chunks) == chunks = <<>>

\* ------------------------------------------- texts to be normalized
\* A valid JSON object with a comma and a brace inside a string.
CommaDoc == [notes |-> JStr(<<"a", ",", "}">>)]

ValidJsonTexts == {Render(FullDoc), Render(CommaDoc)}

Alphabet == {"{", "}", "]", ",", " ", "a"}

\* Every text of at most MaxLen characters of Alphabet, and some responses:
\* valid objects inside other text, and an object with a trailing comma.
RawTexts ==
  UNION {[1..n -> Alphabet] : n \in 0..MaxLen}
    \cup {TextNoisy, TextTrailingComma, TextNotJson,
          <<"n","o","i","s","e">> \o Render(CommaDoc) \o <<"t","r","a","i","l","i","n","g">>}

\* ------------------------------------------------------------ RepoCloner
Threads == 1..MaxThreads

\* self.target_dir
TargetDir == "repo"
NotReturned == ""

\* No thread is in clone; the repository is there (main_async has cloned it).
ClonerAtRest ==
  /\ cl_pc = [t \in Threads |-> "idle"]
  /\ cl_lock = 0
  /\ target_exists = TRUE
  /\ cl_clones = 0
  /\ cl_failed = 0
  /\ cl_ret = [t \in Threads |-> NotReturned]
  /\ cl_seen = [t \in Threads |-> FALSE]
  /\ cl_git = [t \in Threads |-> "none"]

\* A clone that takes no lock.
LockIgnored == TRUE

\* with RepoCloner._lock: the lock can be acquired
LockFree == cl_lock = 0

\* ------------------------------------------------------------ the actions
InitState(n, obs) ==
  /\ mode \in {"sync", "async"}
  /\ max_workers \in 1..MaxWorkers
  /\ code_chunks = [i \in 1..n |-> ChunkInfo(i)]
  /\ st = [c \in Chunks |-> "queued"]
  /\ attempt = [c \in Chunks |-> 0]
  /\ result = [c \in Chunks |-> NoOutcome]
  /\ out = [c \in Chunks |-> <<>>]
  /\ folded = {}
  /\ knowledge = EmptyKnowledge
  /\ phase = "running"
  /\ observe = obs
  /\ calls = [c \in Chunks |-> 0]
  /\ sleeps = [c \in Chunks |-> <<>>]
  /\ caught = [c \in Chunks |-> NoException]
  /\ via_main = FALSE
  /\ readme = "absent"
  /\ project_info = ProjectInfoDefault
  /\ readme_calls = 0
  /\ summary_exc = NoException
  /\ raw = <<>>
  /\ normalized = NotNormalized
  /\ batch_results = <<>>
  /\ ClonerAtRest

\* extract / extract_async over one to MaxChunks chunks, past the build of the
\* vector store and the project summary step of a repository without README
Init == \E n \in 1..MaxChunks : InitState(n, FALSE)

\* extract / extract_async over one chunk, each invocation's history recorded
InitClient == InitState(1, TRUE)

\* main_async after read_and_chunk_codebase, or a direct call of extract /
\* extract_async, over no chunk or one, before the build of the vector store.
\* main_async builds KnowledgeExtractor(llm): max_workers = 1, extract_async.
InitMain ==
  /\ via_main \in BOOLEAN
  /\ mode \in IF via_main THEN {"async"} ELSE {"sync", "async"}
  /\ max_workers \in IF via_main THEN {1} ELSE 1..MaxWorkers
  /\ \E n \in 0..1 : code_chunks = [i \in 1..n |-> ChunkInfo(i)]
  /\ st = [c \in Chunks |-> "queued"]
  /\ attempt = [c \in Chunks |-> 0]
  /\ result = [c \in Chunks |-> NoOutcome]
  /\ out = [c \in Chunks |-> <<>>]
  /\ folded = {}
  /\ knowledge = EmptyKnowledge
  /\ phase = "start"
  /\ observe = FALSE
  /\ calls = [c \in Chunks |-> 0]
  /\ sleeps = [c \in Chunks |-> <<>>]
  /\ caught = [c \in Chunks |-> NoException]
  /\ readme \in {"absent", "present", "unreadable"}
  /\ project_info = PyNone
  /\ readme_calls = 0
  /\ summary_exc = NoException
  /\ raw = <<>>
  /\ normalized = NotNormalized
  /\ batch_results = <<>>
  /\ ClonerAtRest

\* main_async: no code chunks found, it returns and writes no output.
MainExits ==
  /\ via_main
  /\ phase = "start"
  /\ NoChunks(code_chunks)
  /\ phase' = "exited"
  /\ UNCHANGED <<aux, mode, max_workers, code_chunks, st, attempt, result, out, folded,
                 knowledge, history>>

\* How OpenAIEmbeddings() and FAISS.from_documents(docs, embeddings) end.  Both
\* are library code that calls the embedding service: the store is built, or
\* an exception is raised (no API key, a failing request; over no documents
\* langchain's FAISS raises IndexError at embeddings[0]).
VectorStoreOutcomes == {"built", "raised"}

\* extract / extract_async, first step: the vector store is built over the
\* chunks and kept in llm_integration.vectorstore; an exception of the build
\* is caught nowhere and leaves the function before the project summary step.
\* main_async gets here only with chunks.
BuildVectorStore(outcome) ==
  /\ phase = "start"
  /\ via_main => ~NoChunks(code_chunks)
  /\ phase' = IF outcome = "built" THEN "indexed" ELSE "build_raised"
  /\ UNCHANGED <<aux, mode, max_workers, code_chunks, st, attempt, result, out, folded,
                 knowledge, history>>

\* extract / extract_async from the built vector store up to the submission
\* of the chunks: the project summary step, where the oracle answers the
\* README prompt with o.  extract over no chunk runs on to its return.
Summarize(o) ==
  /\ phase = "indexed"
  /\ LET s == SummaryStep(readme, o)
     IN /\ project_info' = s.info
        /\ readme_calls' = s.calls
        /\ summary_exc' = s.exc
  /\ phase' = IF mode = "sync" /\ code_chunks = <<>> THEN "returned" ELSE "running"
  /\ UNCHANGED <<via_main, readme, raw, normalized, batch_results, cloner, mode, max_workers, code_chunks, st,
                 attempt, result, out, folded, knowledge, history>>

\* analyze_code_chunk(_async) ends for chunk c and its locals go: the future
\* finishes (sync), or process_chunk_with_limit runs to its end and releases
\* the semaphore (async).
Finish(c, outcome) ==
  /\ result' = [result EXCEPT ![c] = outcome]
  /\ attempt' = [attempt EXCEPT ![c] = 0]
  /\ IF Threaded
     THEN /\ st' = [st EXCEPT ![c] = "done"]
          /\ out' = out
     ELSE IF outcome.kind = "exc"
     THEN /\ st' = [st EXCEPT ![c] = "done"]
          /\ out' = [out EXCEPT ![c] = ProcessException(code_chunks[c], outcome.exc)]
     ELSE LET p == ProcessResult(code_chunks[c], outcome.value)
          IN /\ st' = [st EXCEPT ![c] = IF p.raised THEN "failed" ELSE "done"]
             /\ out' = [out EXCEPT ![c] = p.out]

\* A worker thread takes the next submitted chunk; a task acquires the semaphore.
Start(c) ==
  /\ WorkersRun
  /\ st[c] = "queued"
  /\ \A d \in Chunks : d < c => st[d] # "queued"
  /\ Cardinality(InFlight) < Slots
  /\ st' = [st EXCEPT ![c] = "calling"]
  /\ UNCHANGED <<aux, mode, max_workers, code_chunks, attempt, result, out, folded,
                 knowledge, phase, history>>

\* One pass of the while loop up to the sleep: self.llm.invoke answers with o.
OracleReturns(c, o) ==
  /\ WorkersRun
  /\ st[c] = "calling"
  /\ LET h == HandleTable[o]
     IN /\ IF h.retry
           THEN /\ st' = [st EXCEPT ![c] = "sleeping"]
                /\ sleeps' = IF observe
                             THEN [sleeps EXCEPT ![c] = Append(@, WaitTime(attempt[c]))]
                             ELSE sleeps
                /\ UNCHANGED <<attempt, result, out>>
           ELSE /\ Finish(c, h.r)
                /\ UNCHANGED sleeps
        /\ calls' = IF observe THEN [calls EXCEPT ![c] = @ + 1] ELSE calls
        /\ caught' = IF observe /\ h.r.kind = "exc"
                     THEN [caught EXCEPT ![c] = h.r.exc] ELSE caught
  /\ UNCHANGED <<aux, mode, max_workers, code_chunks, folded, knowledge, phase, observe>>

\* The sleep ends: attempt += 1, then the loop test; after the loop the
\* rate-limit result is returned.
Wake(c) ==
  /\ WorkersRun
  /\ st[c] = "sleeping"
  /\ IF LoopContinues(attempt[c] + 1)
     THEN /\ st' = [st EXCEPT ![c] = "calling"]
          /\ attempt' = [attempt EXCEPT ![c] = @ + 1]
          /\ UNCHANGED <<result, out>>
     ELSE Finish(c, ValueOutcome(RateLimitExceeded))
  /\ UNCHANGED <<aux, mode, max_workers, code_chunks, folded, knowledge, phase, history>>

\* extract: one iteration of the as_completed loop, for a finished future; the
\* function returns after the last one.
Fold(c) ==
  /\ mode = "sync"
  /\ phase = "running"
  /\ st[c] = "done"
  /\ c \notin folded
  /\ folded' = folded \cup {c}
  /\ IF result[c].kind = "exc"
     THEN /\ knowledge' = FoldException(knowledge, code_chunks[c], result[c].exc)
          /\ phase' = IF folded' = Chunks THEN "returned" ELSE "running"
     ELSE LET f == FoldResult(knowledge, code_chunks[c], result[c].value)
          IN /\ knowledge' = f.knowledge
             /\ phase' = IF f.raised THEN "raised"
                         ELSE IF folded' = Chunks THEN "returned" ELSE "running"
  /\ UNCHANGED <<aux, mode, max_workers, code_chunks, st, attempt, result, out, history>>

\* A gather that returns as soon as one task has finished.
GatherReturnsEarly ==
  /\ mode = "async"
  /\ phase = "running"
  /\ \E c \in Chunks : st[c] = "done"
  /\ knowledge' = FoldResults(knowledge, out, 1)
  /\ phase' = "returned"
  /\ UNCHANGED <<aux, mode, max_workers, code_chunks, st, attempt, result, out, folded,
                 history>>

\* extract_async: gather returns the lists of all tasks, they are folded in the
\* order of the chunks, and the function returns.
GatherReturns ==
  /\ mode = "async"
  /\ phase = "running"
  /\ \A c \in Chunks : st[c] = "done"
  /\ knowledge' = FoldResults(knowledge, out, 1)
  /\ phase' = "returned"
  /\ UNCHANGED <<aux, mode, max_workers, code_chunks, st, attempt, result, out, folded,
                 history>>

\* extract_async: gather raises the exception of a task.
GatherRaises ==
  /\ mode = "async"
  /\ phase = "running"
  /\ \E c \in Chunks : st[c] = "failed"
  /\ phase' = "raised"
  /\ UNCHANGED <<aux, mode, max_workers, code_chunks, st, attempt, result, out, folded,
                 knowledge, history>>

\* extract_async has raised and its caller (asyncio.run) cancels a task that
\* has not ended: CancelledError, no Exception, is raised at the await the task
\* is in (the semaphore, the executor future, the sleep) and ends the task.
Cancel(c) ==
  /\ mode = "async"
  /\ phase = "raised"
  /\ st[c] \in {"queued", "calling", "sleeping"}
  /\ st' = [st EXCEPT ![c] = "cancelled"]
  /\ attempt' = [attempt EXCEPT ![c] = 0]
  /\ UNCHANGED <<aux, mode, max_workers, code_chunks, result, out, folded, knowledge,
                 phase, history>>

Next ==
  \/ \E c \in Chunks : Start(c)
  \/ \E c \in Chunks : \E o \in OracleOutcomes : OracleReturns(c, o)
  \/ \E c \in Chunks : Wake(c)
  \/ \E c \in Chunks : Fold(c)
  \/ GatherReturns
  \/ GatherRaises
  \/ \E c \in Chunks : Cancel(c)

Spec == Init /\ [][Next]_vars

\* Over one chunk no task is left to cancel when extract_async raises.
NextClient ==
  \/ \E c \in Chunks : Start(c)
  \/ \E c \in Chunks : \E o \in OracleOutcomes : OracleReturns(c, o)
  \/ \E c \in Chunks : Wake(c)
  \/ \E c \in Chunks : Fold(c)
  \/ GatherReturns
  \/ GatherRaises

SpecClient == InitClient /\ [][NextClient]_vars

\* A batch that leaves out the chunks whose analysis raised.
BatchAppendSkipFailed(rs, outcome) ==
  IF outcome.kind = "exc" THEN rs ELSE Append(rs, outcome.value)

\* try: results.append(future.result())
\* except Exception as e: results.append({"error": str(e)})
BatchAppend(rs, outcome) ==
  IF outcome.kind = "exc"
  THEN Append(rs, [error |-> JStr(outcome.exc.msg)])
  ELSE Append(rs, outcome.value)

\* analyze_code_chunks_batch over one to MaxChunks chunks, all submitted
InitBatch ==
  /\ mode = "batch"
  /\ max_workers \in 1..MaxWorkers
  /\ \E n \in 1..MaxChunks : code_chunks = [i \in 1..n |-> ChunkInfo(i)]
  /\ st = [c \in Chunks |-> "queued"]
  /\ attempt = [c \in Chunks |-> 0]
  /\ result = [c \in Chunks |-> NoOutcome]
  /\ out = [c \in Chunks |-> <<>>]
  /\ folded = {}
  /\ knowledge = EmptyKnowledge
  /\ phase = "running"
  /\ observe = FALSE
  /\ calls = [c \in Chunks |-> 0]
  /\ sleeps = [c \in Chunks |-> <<>>]
  /\ caught = [c \in Chunks |-> NoException]
  /\ via_main = FALSE
  /\ readme = "absent"
  /\ project_info = PyNone
  /\ readme_calls = 0
  /\ summary_exc = NoException
  /\ raw = <<>>
  /\ normalized = NotNormalized
  /\ batch_results = <<>>
  /\ ClonerAtRest

\* analyze_code_chunks_batch: one iteration of the as_completed loop, for a
\* finished future; the function returns after the last one.
BatchCollect(c) ==
  /\ mode = "batch"
  /\ phase = "running"
  /\ st[c] = "done"
  /\ c \notin folded
  /\ folded' = folded \cup {c}
  /\ batch_results' = BatchAppend(batch_results, result[c])
  /\ phase' = IF folded' = Chunks THEN "returned" ELSE "running"
  /\ UNCHANGED <<via_main, readme, project_info, readme_calls, summary_exc, raw,
                 normalized, cloner, mode, max_workers, code_chunks, st, attempt, result, out,
                 knowledge, history>>

NextBatch ==
  \/ \E c \in Chunks : Start(c)
  \/ \E c \in Chunks : \E o \in OracleOutcomes : OracleReturns(c, o)
  \/ \E c \in Chunks : Wake(c)
  \/ \E c \in Chunks : BatchCollect(c)

SpecBatch == InitBatch /\ [][NextBatch]_vars

\* Threads of one process about to call clone() on one target directory,
\* which is there or not; no pipeline runs.
InitClone ==
  /\ cl_pc = [t \in Threads |-> "idle"]
  /\ cl_lock = 0
  /\ target_exists \in BOOLEAN
  /\ cl_clones = 0
  /\ cl_failed = 0
  /\ cl_ret = [t \in Threads |-> NotReturned]
  /\ cl_seen = [t \in Threads |-> FALSE]
  /\ cl_git = [t \in Threads |-> "none"]
  /\ mode = "sync"
  /\ max_workers = 1
  /\ code_chunks = <<>>
  /\ st = <<>>
  /\ attempt = <<>>
  /\ result = <<>>
  /\ out = <<>>
  /\ folded = {}
  /\ knowledge = EmptyKnowledge
  /\ phase = "start"
  /\ observe = FALSE
  /\ calls = <<>>
  /\ sleeps = <<>>
  /\ caught = <<>>
  /\ via_main = FALSE
  /\ readme = "absent"
  /\ project_info = PyNone
  /\ readme_calls = 0
  /\ summary_exc = NoException
  /\ raw = <<>>
  /\ normalized = NotNormalized
  /\ batch_results = <<>>

ClonerOnly ==
  UNCHANGED <<via_main, readme, project_info, readme_calls, summary_exc, raw, normalized,
              batch_results, mode, max_workers, code_chunks, st, attempt, result, out,
              folded, knowledge, phase, history>>

\* Thread t calls clone() and reaches the with statement.
CallClone(t) ==
  /\ cl_pc[t] = "idle"
  /\ cl_pc' = [cl_pc EXCEPT ![t] = "waiting"]
  /\ cl_seen' = [cl_seen EXCEPT ![t] = target_exists]
  /\ UNCHANGED <<cl_lock, target_exists, cl_clones, cl_failed, cl_ret, cl_git>>
  /\ ClonerOnly

\* with RepoCloner._lock: thread t acquires the lock.
Acquire(t) ==
  /\ cl_pc[t] = "waiting"
  /\ LockFree
  /\ cl_lock' = t
  /\ cl_pc' = [cl_pc EXCEPT ![t] = "locked"]
  /\ UNCHANGED <<target_exists, cl_clones, cl_failed, cl_ret, cl_seen, cl_git>>
  /\ ClonerOnly

\* if os.path.exists(self.target_dir): return self.target_dir (the lock is
\* released); else Repo.clone_from starts.
CheckExists(t) ==
  /\ cl_pc[t] = "locked"
  /\ IF target_exists
     THEN /\ cl_pc' = [cl_pc EXCEPT ![t] = "returned"]
          /\ cl_ret' = [cl_ret EXCEPT ![t] = TargetDir]
          /\ cl_lock' = 0
     ELSE /\ cl_pc' = [cl_pc EXCEPT ![t] = "cloning"]
          /\ UNCHANGED <<cl_ret, cl_lock>>
  /\ UNCHANGED <<target_exists, cl_clones, cl_failed, cl_seen, cl_git>>
  /\ ClonerOnly

\* Repo.clone_from is running in thread t and git creates the target directory:
\* the other threads see it before the clone has ended.  git refuses a target
\* that is there already.
CloneWrites(t) ==
  /\ cl_pc[t] = "cloning"
  /\ cl_git[t] = "none"
  /\ ~target_exists
  /\ target_exists' = TRUE
  /\ cl_git' = [cl_git EXCEPT ![t] = "written"]
  /\ UNCHANGED <<cl_pc, cl_lock, cl_clones, cl_failed, cl_ret, cl_seen>>
  /\ ClonerOnly

\* Repo.clone_from is running in thread t, the clone has failed and git removes
\* the directory it created; the thread is still inside Repo.clone_from and
\* holds the lock.
CloneRemoves(t) ==
  /\ cl_pc[t] = "cloning"
  /\ cl_git[t] = "written"
  /\ target_exists' = FALSE
  /\ cl_git' = [cl_git EXCEPT ![t] = "removed"]
  /\ UNCHANGED <<cl_pc, cl_lock, cl_clones, cl_failed, cl_ret, cl_seen>>
  /\ ClonerOnly

\* How Repo.clone_from ends: it returns, or it raises GitCommandError.
CloneOutcomes == {"created", "raised"}

\* Repo.clone_from ends in thread t and the lock is released.  It returns only
\* with the directory git wrote, and clone returns the target; it raises with
\* nothing written, with the directory removed, or with the directory left as
\* far as git wrote it (a clone that fails at the checkout), and the exception
\* leaves clone.  The target is as git left it.
CloneEnds(t, outcome) ==
  /\ cl_pc[t] = "cloning"
  /\ outcome = "created" => cl_git[t] = "written"
  /\ cl_lock' = 0
  /\ IF outcome = "created"
     THEN /\ cl_clones' = cl_clones + 1
          /\ cl_pc' = [cl_pc EXCEPT ![t] = "returned"]
          /\ cl_ret' = [cl_ret EXCEPT ![t] = TargetDir]
          /\ UNCHANGED cl_failed
     ELSE /\ cl_failed' = cl_failed + 1
          /\ cl_pc' = [cl_pc EXCEPT ![t] = "raised"]
          /\ UNCHANGED <<cl_clones, cl_ret>>
  /\ cl_git' = [cl_git EXCEPT ![t] = "none"]
  /\ UNCHANGED <<target_exists, cl_seen>>
  /\ ClonerOnly

NextClone ==
  \/ \E t \in Threads : CallClone(t)
  \/ \E t \in Threads : Acquire(t)
  \/ \E t \in Threads : CheckExists(t)
  \/ \E t \in Threads : CloneWrites(t)
  \/ \E t \in Threads : CloneRemoves(t)
  \/ \E t \in Threads : \E outcome \in CloneOutcomes : CloneEnds(t, outcome)

SpecClone == InitClone /\ [][NextClone]_vars

\* The whole run: main_async or a direct call, the project summary step, then
\* the chunk pipeline.
NextMain ==
  \/ MainExits
  \/ \E outcome \in VectorStoreOutcomes : BuildVectorStore(outcome)
  \/ \E o \in ReadmeOutcomes : Summarize(o)
  \/ \E c \in Chunks : Start(c)
  \/ \E c \in Chunks : \E o \in OracleOutcomes : OracleReturns(c, o)
  \/ \E c \in Chunks : Wake(c)
  \/ \E c \in Chunks : Fold(c)
  \/ GatherReturns
  \/ GatherRaises

SpecMain == InitMain /\ [][NextMain]_vars

\* One call of _clean_json_string, on a text of RawTexts; no pipeline runs.
InitClean ==
  /\ raw \in RawTexts
  /\ normalized = NotNormalized
  /\ batch_results = <<>>
  /\ ClonerAtRest
  /\ mode = "sync"
  /\ max_workers = 1
  /\ code_chunks = <<>>
  /\ st = <<>>
  /\ attempt = <<>>
  /\ result = <<>>
  /\ out = <<>>
  /\ folded = {}
  /\ knowledge = EmptyKnowledge
  /\ phase = "start"
  /\ observe = FALSE
  /\ calls = <<>>
  /\ sleeps = <<>>
  /\ caught = <<>>
  /\ via_main = FALSE
  /\ readme = "absent"
  /\ project_info = PyNone
  /\ readme_calls = 0
  /\ summary_exc = NoException

\* cleaned_content = self._clean_json_string(raw_content)
Normalize ==
  /\ ~normalized.done
  /\ normalized' = [done |-> TRUE, text |-> _clean_json_string(raw)]
  /\ UNCHANGED <<via_main, readme, project_info, readme_calls, summary_exc, raw,
                 batch_results, cloner, mode,
                 max_workers, code_chunks, st, attempt, result, out, folded, knowledge,
                 phase, history>>

NextClean == Normalize

SpecClean == InitClean /\ [][NextClean]_vars

\* ================================================================ claims
Finished(c) == st[c] \in {"done", "failed"}

Identity(c) == <<code_chunks[c].file, code_chunks[c].chunk_index>>

TagsOf(entries) == {<<entries[i].file, entries[i].chunk_index>> : i \in 1..Len(entries)}

\* The chunk identities tagged on an entry of overview, complexity or notes.
TaggedChunks ==
  TagsOf(knowledge.overview) \cup TagsOf(knowledge.complexity) \cup TagsOf(knowledge.notes)

\* The result of chunk c is an object that has the key methods and none of
\* overview, complexity and notes (for extract_async: with a nonempty list).
MethodsOnly(c) ==
  /\ result[c].kind = "value"
  /\ DOMAIN result[c].value \cap ResultKeys = {"methods"}
  /\ mode = "async" => result[c].value["methods"].items # <<>>

\* 'rate limit' ignoring case, or '429', or 'rate_limit_exceeded' as written
MentionsRateLimit(msg) ==
  \/ \E i \in 1..Len(msg) : \E j \in i..Len(msg) : lower(SubSeq(msg, i, j)) = T_rate_limit
  \/ \E i \in 1..Len(msg) : \E j \in i..Len(msg) : SubSeq(msg, i, j) = T_429
  \/ \E i \in 1..Len(msg) : \E j \in i..Len(msg) : SubSeq(msg, i, j) = T_rate_limit_exceeded

\* one of the three patterns, ignoring case
MentionsRateLimitAnyCase(msg) ==
  \E i \in 1..Len(msg) : \E j \in i..Len(msg) :
    lower(SubSeq(msg, i, j)) \in {T_rate_limit, T_429, T_rate_limit_exceeded}

\* The invocation for chunk c caught an exception and went on (slept, called
\* again, or gave the rate-limit result) instead of raising it.
Retried(c) == caught[c] # NoException /\ result[c].kind # "exc"

\* C1 (as claimed): when extract / extract_async returns, the number of distinct
\* chunk identities tagged on an entry of overview, complexity or notes equals
\* the number of input chunks.
C1_EveryChunkTagged ==
  phase = "returned" => Cardinality(TaggedChunks) = Len(code_chunks)

\* C1 (amended): when extract / extract_async returns, the chunks tagged on an
\* entry of overview, complexity or notes are exactly the input chunks other
\* than those whose result carried methods and none of overview, complexity and
\* notes (for extract_async: a nonempty methods list), which contribute to
\* methods only.
C1_TaggedUnlessMethodsOnly ==
  phase = "returned" =>
    TaggedChunks = {Identity(c) : c \in {x \in Chunks : ~MethodsOnly(x)}}

C1_Witness ==
  /\ phase = "returned"
  /\ Len(code_chunks) >= 2
  /\ \E c \in Chunks : MethodsOnly(c)
  /\ \E c \in Chunks : result[c].kind = "exc" /\ Identity(c) \in TaggedChunks

\* C2 (as claimed): the methods sequence of the aggregate never holds two
\* structurally equal method facts (same name, signature and description), in
\* extract and in extract_async.
C2_MethodsUnique ==
  \A i, j \in 1..Len(knowledge.methods) :
    i # j =>
      ~ /\ knowledge.methods[i].name = knowledge.methods[j].name
        /\ knowledge.methods[i].signature = knowledge.methods[j].signature
        /\ knowledge.methods[i].description = knowledge.methods[j].description

\* C3: an invocation whose every oracle call was rate-limited makes exactly
\* max_retries calls, sleeps base_delay * 2^k after the k-th call (k = 0, 1, ...)
\* and ends with the rate-limit-exceeded result; no call follows that result.
C3_RateLimitExhaustion ==
  \A c \in Chunks :
    /\ calls[c] <= max_retries
    /\ \A k \in 1..Len(sleeps[c]) : sleeps[c][k] = base_delay * 2 ^ (k - 1)
    /\ (Finished(c) /\ Len(sleeps[c]) = calls[c]) =>
         /\ calls[c] = max_retries
         /\ result[c] = ValueOutcome(RateLimitExceeded)
    /\ result[c] = ValueOutcome(RateLimitExceeded) =>
         /\ Finished(c)
         /\ calls[c] = max_retries
         /\ Len(sleeps[c]) = max_retries

C3_Witness ==
  \E c \in Chunks :
    /\ result[c] = ValueOutcome(RateLimitExceeded)
    /\ sleeps[c] = <<5, 10, 20, 40, 80>>

\* C4 (as claimed): analyze_code_chunk / analyze_code_chunk_async never raises
\* to its caller.
C4_NeverRaises ==
  \A c \in Chunks : result[c].kind # "exc"

\* C4 (amended): the invocation returns a value for a parsable response and
\* for rate-limit exhaustion, and raises to its caller exactly the exceptions
\* (of the oracle call or of the parser) whose message does not indicate rate
\* limiting; it never turns those into a returned failure value.
C4_RaisesWhatIsNotRateLimit ==
  \A c \in Chunks :
    /\ result[c].kind = "exc" =>
         /\ result[c].exc = caught[c]
         /\ ~MentionsRateLimit(caught[c].msg)
    /\ result[c].kind = "value" =>
         \/ caught[c] = NoException
         \/ MentionsRateLimit(caught[c].msg)

C4_Witness ==
  /\ \E c \in Chunks : result[c].kind = "exc" /\ result[c].exc.origin = "parser"
  /\ phase = "returned"

\* C5 (as claimed): no result of a chunk makes extract / extract_async raise.
C5_NoChunkIsFatal == phase # "raised"

\* C6: at every instant at most max_workers invocations are in flight (calling
\* the oracle or sleeping in backoff); the other chunks wait.
C6_InFlightWithinCap ==
  Cardinality({c \in Chunks : st[c] \in {"calling", "sleeping"}}) <= max_workers

C6_Witness ==
  /\ Cardinality({c \in Chunks : st[c] \in {"calling", "sleeping"}}) = max_workers
  /\ \E c \in Chunks : st[c] = "sleeping"
  /\ \E c \in Chunks : st[c] = "queued"

\* C7 (as claimed): while a chunk waits in backoff, the next chunk that has not
\* started can start, and a chunk that is calling can complete its call, for
\* every concurrency.
C7_BackoffNeverStallsOthers ==
  \A c, d \in Chunks :
    (c # d /\ st[c] = "sleeping" /\ phase = "running") =>
      /\ (st[d] = "queued" /\ \A e \in Chunks : e < d => st[e] # "queued") =>
           ENABLED Start(d)
      /\ st[d] = "calling" => ENABLED (\E o \in OracleOutcomes : OracleReturns(d, o))

\* C7 (amended): while a chunk waits in backoff, a chunk whose call is in flight
\* can complete it, and the next chunk that has not started can start exactly
\* when fewer than max_workers invocations, those in backoff included, are in
\* flight; with concurrency 1 nothing starts until the sleeping invocation ends.
C7_BackoffHoldsItsSlot ==
  \A c, d \in Chunks :
    (c # d /\ st[c] = "sleeping" /\ phase = "running") =>
      /\ (st[d] = "queued" /\ \A e \in Chunks : e < d => st[e] # "queued") =>
           (ENABLED Start(d) <=>
              Cardinality({e \in Chunks : st[e] \in {"calling", "sleeping"}}) < max_workers)
      /\ st[d] = "calling" => ENABLED (\E o \in OracleOutcomes : OracleReturns(d, o))

C7_Witness ==
  /\ max_workers = 1
  /\ phase = "running"
  /\ \E c, d \in Chunks : st[c] = "sleeping" /\ st[d] = "queued" /\ ~ENABLED Start(d)

\* C8 (as claimed): an exception of the parser is never retried: the invocation
\* ends with it and makes no further oracle call.
C8_ParseErrorNotRetried ==
  \A c \in Chunks :
    caught[c].origin = "parser" => Finished(c) /\ result[c] = ExcOutcome(caught[c])

\* C9: an exception of the oracle call whose message does not indicate rate
\* limiting ends the invocation at once, at any attempt: it is raised, no
\* sleep follows the call that raised it and no call follows it.
C9_OtherExceptionAborts ==
  \A c \in Chunks :
    (caught[c].origin = "call" /\ ~MentionsRateLimit(caught[c].msg)) =>
      /\ Finished(c)
      /\ result[c] = ExcOutcome(caught[c])
      /\ Len(sleeps[c]) = calls[c] - 1

C9_Witness ==
  \E c \in Chunks :
    /\ result[c] = ExcOutcome(ExcTimeout)
    /\ calls[c] >= 2
    /\ Len(sleeps[c]) = calls[c] - 1

\* C10 (as claimed): an exception of the oracle call is retried exactly when its
\* message contains "rate limit", "429" or "rate_limit_exceeded", each compared
\* ignoring case.
C10_RetriedIffMatchIgnoringCase ==
  \A c \in Chunks :
    caught[c].origin = "call" => (Retried(c) <=> MentionsRateLimitAnyCase(caught[c].msg))

\* C10 (amended): an exception of the oracle call is retried exactly when its
\* message contains "rate limit" compared ignoring case, or "429" or
\* "rate_limit_exceeded" compared as written; a message that matches only by an
\* upper-case variant such as "RATE_LIMIT_EXCEEDED" is raised, not retried.
C10_RetriedIffMatchAsWritten ==
  \A c \in Chunks :
    caught[c].origin = "call" => (Retried(c) <=> MentionsRateLimit(caught[c].msg))

C10_Witness ==
  /\ \E c \in Chunks : result[c] = ExcOutcome(ExcUpperQuota)
  /\ phase = "returned"

\* The analysis of chunk c ended in failure: the invocation raised, or gave
\* the rate-limit result.
Failed(c) == result[c].kind = "exc" \/ result[c] = ValueOutcome(RateLimitExceeded)

\* The texts of the notes entries tagged with chunk c.
NoteTexts(c) ==
  {knowledge.notes[i].notes : i \in {j \in 1..Len(knowledge.notes) :
      <<knowledge.notes[j].file, knowledge.notes[j].chunk_index>> = Identity(c)}}

\* text reads <kind>: <message> for a nonempty kind and the message msg
KindThenMessage(text, msg) ==
  /\ Len(text) > Len(msg) + 2
  /\ SubSeq(text, Len(text) - Len(msg) - 1, Len(text)) = <<":", " ">> \o msg

\* The message of the failure of chunk c.
FailureMessage(c) ==
  IF result[c].kind = "exc" THEN result[c].exc.msg ELSE result[c].value["error"].s

\* C11 (as claimed): when extract / extract_async returns, every failed chunk
\* (exception, or rate-limit exhaustion) has a notes entry tagged with it whose
\* text reads "<errorKind>: <message>", the kind and the message of the failure.
C11_FailureNoteHasKindAndMessage ==
  phase = "returned" =>
    \A c \in Chunks :
      Failed(c) => \E t \in NoteTexts(c) : KindThenMessage(t, FailureMessage(c))

\* C11 (amended): when extract / extract_async returns, a chunk whose
\* invocation raised has a notes entry tagged with it that reads
\* "LLM error: <exception class>: <message>", and a chunk that exhausted its
\* retries has a notes entry tagged with it that is the bare message
\* "Rate limit exceeded after 5 retries.", with no kind before it.
C11_FailureNoteAsWritten ==
  phase = "returned" =>
    \A c \in Chunks :
      /\ result[c].kind = "exc" =>
           (<<"L","L","M"," ","e","r","r","o","r",":"," ">> \o result[c].exc.type
              \o <<":", " ">> \o result[c].exc.msg) \in NoteTexts(c)
      /\ result[c] = ValueOutcome(RateLimitExceeded) =>
           NoteTexts(c) =
             {<<"R","a","t","e"," ","l","i","m","i","t"," ","e","x","c","e","e","d","e","d",
                " ","a","f","t","e","r"," ","5"," ","r","e","t","r","i","e","s",".">>}

C11_Witness ==
  /\ phase = "returned"
  /\ \E c \in Chunks : result[c] = ValueOutcome(RateLimitExceeded)
  /\ \E c \in Chunks : result[c].kind = "exc" /\ result[c].exc.origin = "call"

\* The entries follow the order of the input chunks.
InInputOrder(entries) ==
  \A i, j \in 1..Len(entries) : i < j => entries[i].chunk_index <= entries[j].chunk_index

\* C12 (as claimed): in extract and in extract_async, when chunk b has finished
\* and an earlier chunk a is still calling or in backoff, the outcome of b can
\* be folded into the aggregate at once, without waiting for a.
C12_FoldedInCompletionOrder ==
  \A a, b \in Chunks :
    (a < b /\ phase = "running" /\ st[a] \in {"calling", "sleeping"}
       /\ st[b] = "done" /\ b \notin folded) =>
      ENABLED (Fold(b) \/ GatherReturns)

\* C12 (amended): extract folds a finished chunk at once, whatever earlier
\* chunk is still in flight; extract_async folds nothing until every chunk has
\* finished (gather), and then folds the outcomes in the order of the input.
C12_CompletionOrderInExtractOnly ==
  /\ mode = "sync" =>
       \A a, b \in Chunks :
         (a < b /\ phase = "running" /\ st[a] \in {"calling", "sleeping"}
            /\ st[b] = "done" /\ b \notin folded) =>
           ENABLED Fold(b)
  /\ mode = "async" =>
       /\ (\E c \in Chunks : st[c] # "done") => knowledge = EmptyKnowledge /\ ~ENABLED GatherReturns
       /\ InInputOrder(knowledge.overview)
       /\ InInputOrder(knowledge.complexity)
       /\ InInputOrder(knowledge.notes)

C12_Witness ==
  /\ mode = "async"
  /\ phase = "running"
  /\ \E a, b \in Chunks :
       a < b /\ st[a] = "sleeping" /\ st[b] = "done" /\ out[b] # <<>>
  /\ knowledge = EmptyKnowledge

Range(seq) == {seq[i] : i \in 1..Len(seq)}

\* The content of an aggregate, the order of its sequences left out.
Content(k) ==
  [overview |-> Range(k.overview), methods |-> Range(k.methods),
   complexity |-> Range(k.complexity), notes |-> Range(k.notes)]

\* The aggregate of the run with concurrency 1, where the chunks finish and are
\* folded one after the other in the order of the input: chunk c and the ones
\* after it folded into k.
RECURSIVE SequentialRun(_, _)
SequentialRun(k, c) ==
  IF c > Len(code_chunks) THEN k
  ELSE SequentialRun(
         IF mode = "sync"
         THEN (IF result[c].kind = "exc"
               THEN FoldException(k, code_chunks[c], result[c].exc)
               ELSE FoldResult(k, code_chunks[c], result[c].value).knowledge)
         ELSE FoldItems(k,
                IF result[c].kind = "exc"
                THEN ProcessException(code_chunks[c], result[c].exc)
                ELSE ProcessResult(code_chunks[c], result[c].value).out, 1),
         c + 1)

\* C13: with the outcome of every chunk fixed, the aggregate extract /
\* extract_async returns has the content of the run with concurrency 1 (the
\* same sets of overview, complexity and notes entries and of method facts),
\* for every concurrency and every interleaving; only the order may differ.
C13_ContentIndependentOfConcurrency ==
  phase = "returned" => Content(knowledge) = Content(SequentialRun(EmptyKnowledge, 1))

C13_Witness ==
  /\ phase = "returned"
  /\ max_workers = 2
  /\ Len(code_chunks) = 2
  /\ knowledge # SequentialRun(EmptyKnowledge, 1)
  /\ Len(knowledge.methods) >= 2

\* C14 (as claimed): the pipeline ends only by extract / extract_async
\* returning after every chunk has reached a terminal result: a state in which
\* no further step is possible is one where every chunk has reported and the
\* function has returned.
C14_EndsByReturning ==
  (~ENABLED Next) => (phase = "returned" /\ \A c \in Chunks : st[c] = "done")

\* C15: the aggregate changes only in a step of the one consumer: never in a
\* step of a worker (a step that starts, continues or ends an invocation), and
\* one merge at a time: in extract a step that changes it consumes exactly
\* one finished future, in extract_async it is the single fold after gather,
\* when every task has finished.
C15_SingleWriter ==
  [][knowledge' # knowledge =>
       /\ st' = st /\ attempt' = attempt /\ result' = result /\ out' = out
       /\ IF mode = "sync"
          THEN \E c \in Chunks :
                 st[c] = "done" /\ c \notin folded /\ folded' = folded \cup {c}
          ELSE /\ \A c \in Chunks : st[c] = "done"
               /\ knowledge = EmptyKnowledge
               /\ phase' = "returned"]_vars

C15_Witness ==
  /\ mode = "sync"
  /\ knowledge # EmptyKnowledge
  /\ folded # {}
  /\ \E c \in Chunks : st[c] = "calling"

\* The texts a notes entry for chunk c can carry: the note of its exception,
\* the notes of its result, or the fallback for a result without the keys.
NoteContents(c) ==
  IF result[c].kind = "exc"
  THEN {<<"L","L","M"," ","e","r","r","o","r",":"," ">> \o result[c].exc.type
          \o <<":", " ">> \o result[c].exc.msg}
  ELSE IF result[c].kind = "value"
  THEN IF "notes" \in DOMAIN result[c].value
       THEN {PyValue(result[c].value["notes"])}
       ELSE {FallbackText(result[c].value)}
  ELSE {}

\* The chunk an entry is tagged with: the index of the input chunk that has
\* the entry's file and chunk_index.
ChunkOf(e) == {c \in Chunks : Identity(c) = <<e.file, e.chunk_index>>}

\* C16: every overview, complexity and notes entry is tagged with one input
\* chunk, the content of the entry is what the invocation that was sent that
\* chunk's text produced, and no list has two entries for one chunk; in every
\* state, so for every completion order and concurrency.
C16_AttributionPreserved ==
  /\ \A i \in 1..Len(knowledge.overview) :
       LET e == knowledge.overview[i]
       IN /\ Cardinality(ChunkOf(e)) = 1
          /\ \A c \in ChunkOf(e) :
               /\ result[c].kind = "value"
               /\ "overview" \in DOMAIN result[c].value
               /\ e.overview = PyValue(result[c].value["overview"])
          /\ \A j \in 1..Len(knowledge.overview) :
               j # i => ChunkOf(knowledge.overview[j]) # ChunkOf(e)
  /\ \A i \in 1..Len(knowledge.complexity) :
       LET e == knowledge.complexity[i]
       IN /\ Cardinality(ChunkOf(e)) = 1
          /\ \A c \in ChunkOf(e) :
               /\ result[c].kind = "value"
               /\ "complexity" \in DOMAIN result[c].value
               /\ e.complexity = PyValue(result[c].value["complexity"])
          /\ \A j \in 1..Len(knowledge.complexity) :
               j # i => ChunkOf(knowledge.complexity[j]) # ChunkOf(e)
  /\ \A i \in 1..Len(knowledge.notes) :
       LET e == knowledge.notes[i]
       IN /\ Cardinality(ChunkOf(e)) = 1
          /\ \A c \in ChunkOf(e) : e.notes \in NoteContents(c)
          /\ \A j \in 1..Len(knowledge.notes) :
               j # i => ChunkOf(knowledge.notes[j]) # ChunkOf(e)

C16_Witness ==
  /\ phase = "returned"
  /\ Len(knowledge.overview) = 1
  /\ knowledge.overview[1].chunk_index = 0
  /\ Len(knowledge.notes) = 2
  /\ knowledge.notes[1].chunk_index = 1
  /\ knowledge.notes[2].chunk_index = 0

\* The project summary step is over.
Summarized == phase \in {"running", "returned", "raised"}

\* C17 (as claimed): when a README is present (readable or not), exactly one
\* oracle call is made for it, and when the step failed the project info is
\* {"readme_error": m} with a nonempty m; the step never ends the run.
C17_OneCallAndNonemptyError ==
  /\ ~(phase = "raised" /\ \A c \in Chunks : st[c] = "queued")
  /\ (Summarized /\ readme # "absent") =>
       /\ readme_calls = 1
       /\ summary_exc # NoException =>
            /\ project_info.t = "dict"
            /\ DOMAIN project_info.d = {"readme_error"}
            /\ project_info.d["readme_error"].s # <<>>

\* C17 (amended): the project summary step never ends the run: the chunk
\* pipeline starts after it whatever happened.  For a README that can be read
\* exactly one oracle call is made, with no retry; for one that cannot be read
\* no call is made.  When the step failed (read error, oracle exception,
\* parse error) the project info is {"readme_error": str(e)}, the text of the
\* exception, which is empty when the exception carries no message; when it
\* did not fail the project info is the parsed object.
C17_SummaryNeverAborts ==
  /\ ~(phase = "raised" /\ \A c \in Chunks : st[c] = "queued")
  /\ readme_calls <= 1
  /\ (Summarized /\ readme # "absent") =>
       /\ readme_calls = IF readme = "present" THEN 1 ELSE 0
       /\ readme = "unreadable" => summary_exc.origin = "read"
       /\ summary_exc # NoException =>
            project_info = [t |-> "dict", d |-> [readme_error |-> JStr(summary_exc.msg)]]
       /\ summary_exc = NoException => project_info = [t |-> "dict", d |-> ReadmeDoc]
  /\ (Summarized /\ ~ENABLED NextMain /\ phase # "raised") =>
       (phase = "returned" /\ \A c \in Chunks : st[c] = "done")

C17_Witness ==
  /\ phase = "returned"
  /\ summary_exc = ExcRateLimit
  /\ readme_calls = 1
  /\ Len(code_chunks) = 1
  /\ knowledge # EmptyKnowledge

\* C18 (as claimed): with no README the project summary step makes no oracle
\* call and the project info is null.
C18_NoReadmeGivesNull ==
  (Summarized /\ readme = "absent") => (readme_calls = 0 /\ project_info = PyNone)

\* C18 (amended): with no README the project summary step makes no oracle call
\* and the project info is the empty object {}: not null, and no error object.
C18_NoReadmeGivesEmptyObject ==
  (Summarized /\ readme = "absent") =>
    /\ readme_calls = 0
    /\ summary_exc = NoException
    /\ project_info = [t |-> "dict", d |-> EmptyDict]

C18_Witness ==
  /\ readme = "absent"
  /\ phase = "returned"
  /\ project_info.t = "dict"
  /\ Len(code_chunks) = 1

\* C19: over an empty chunk sequence the run ends without error by yielding
\* an aggregate whose four sequences are empty and whose project info is
\* null.
C19_EmptyInputGivesEmptyAggregate ==
  (code_chunks = <<>> /\ ~ENABLED NextMain) =>
    /\ phase = "returned"
    /\ knowledge = EmptyKnowledge
    /\ project_info = PyNone

\* s holds a '{' and a later '}'.
HasBraces(s) == \E i, j \in 1..Len(s) : i < j /\ s[i] = "{" /\ s[j] = "}"

\* The part of s from its first '{' to its last '}'.
Slice(s) ==
  LET a == CHOOSE i \in 1..Len(s) : s[i] = "{" /\ ~\E k \in 1..Len(s) : k < i /\ s[k] = "{"
      b == CHOOSE j \in 1..Len(s) : s[j] = "}" /\ ~\E k \in 1..Len(s) : k > j /\ s[k] = "}"
  IN SubSeq(s, a, b)

\* The comma at i is followed only by whitespace and then '}' or ']'.
TrailingComma(t, i) ==
  /\ t[i] = ","
  /\ \E j \in (i + 1)..Len(t) :
       /\ t[j] \in {"}", "]"}
       /\ \A k \in (i + 1)..(j - 1) : t[k] \in {" ", "\t", "\n", "\r"}

\* The characters of t at the indices of keep, in their order.
Kept(t, keep) ==
  [n \in 1..Cardinality(keep) |->
     t[CHOOSE i \in keep : Cardinality({j \in keep : j < i}) = n - 1]]

\* t without its trailing commas.
CommasDropped(t) == Kept(t, {i \in 1..Len(t) : ~TrailingComma(t, i)})

\* The whitespace at k stands between a trailing comma and its closing character.
InGap(t, k) ==
  /\ t[k] \in {" ", "\t", "\n", "\r"}
  /\ \E i \in 1..(k - 1) :
       TrailingComma(t, i) /\ \A m \in (i + 1)..k : t[m] \in {" ", "\t", "\n", "\r"}

\* t without its trailing commas and the whitespace between each of them and
\* the closing character.
CommasAndGapsDropped(t) ==
  Kept(t, {i \in 1..Len(t) : ~TrailingComma(t, i) /\ ~InGap(t, i)})

\* C20 (as claimed): for a raw response with a '{' and a later '}', the
\* normalized text is the part from the first '{' to the last '}' without the
\* commas that are followed only by whitespace and a closing '}' or ']'; and
\* when that part is a valid JSON object, the normalized text is that object.
C20_SliceWithoutTrailingCommas ==
  (normalized.done /\ HasBraces(raw)) =>
    /\ normalized.text = CommasDropped(Slice(raw))
    /\ Slice(raw) \in ValidJsonTexts => normalized.text = Slice(raw)

\* C20 (amended): for a raw response with a '{' and a later '}', the
\* normalized text is the part from the first '{' to the last '}' without the
\* commas that are followed only by whitespace and a closing '}' or ']', and
\* without the whitespace between such a comma and the closing character; a
\* valid JSON object inside other text comes out unchanged when it holds no
\* such comma, and with the same removals otherwise, also inside its strings.
C20_SliceWithoutCommasAndGaps ==
  (normalized.done /\ HasBraces(raw)) =>
    /\ normalized.text = CommasAndGapsDropped(Slice(raw))
    /\ (\A i \in 1..Len(Slice(raw)) : ~TrailingComma(Slice(raw), i)) =>
         normalized.text = Slice(raw)

C20_Witness ==
  /\ normalized.done
  /\ raw = <<"{", ",", " ", "}">>
  /\ normalized.text = <<"{", "}">>

\* The invocation for chunk c returned the parsed object of a response.
Succeeded(c) ==
  /\ Finished(c)
  /\ result[c].kind = "value"
  /\ result[c] # ValueOutcome(RateLimitExceeded)

\* C21: an invocation whose first k calls were rate-limited (k < max_retries)
\* and whose next call gave parsable output has made exactly k + 1 calls, has
\* slept exactly k times, base_delay * 2^(i-1) after the i-th call, each sleep
\* between a failed call and the next call, and has returned the parsed
\* object; the attempt counter of an invocation never decreases and never
\* exceeds max_retries.
C21_RecoveryAfterRateLimits ==
  /\ [](\A c \in Chunks :
          /\ attempt[c] <= max_retries
          /\ \A i \in 1..Len(sleeps[c]) : sleeps[c][i] = base_delay * 2 ^ (i - 1)
          /\ st[c] = "calling" => Len(sleeps[c]) = calls[c] /\ attempt[c] = calls[c]
          /\ st[c] = "sleeping" => Len(sleeps[c]) = calls[c] /\ attempt[c] = calls[c] - 1
          /\ Succeeded(c) =>
               /\ calls[c] <= max_retries
               /\ Len(sleeps[c]) = calls[c] - 1
               /\ result[c].value \in JsonDocs
               /\ caught[c] # NoException => MentionsRateLimit(caught[c].msg))
  /\ [][\A c \in Chunks :
          (st[c] \in {"calling", "sleeping"} /\ st'[c] \in {"calling", "sleeping"}) =>
            /\ attempt'[c] >= attempt[c]
            /\ calls'[c] >= calls[c]
            /\ (calls'[c] > calls[c]) => st[c] = "calling" /\ st'[c] = "sleeping"]_vars

C21_Witness ==
  \E c \in Chunks :
    /\ Succeeded(c)
    /\ result[c].value = FullDoc
    /\ calls[c] = max_retries
    /\ sleeps[c] = <<5, 10, 20, 40>>
    /\ caught[c] = ExcRateLimit

\* What the batch holds for chunk c once its invocation has ended.
BatchExpected(c) ==
  IF result[c].kind = "exc"
  THEN [error |-> [t |-> "str", s |-> result[c].exc.msg, items |-> <<>>]]
  ELSE result[c].value

\* C22: analyze_code_chunks_batch never raises because of a chunk and returns
\* exactly one result per input chunk: every run ends by returning, the list
\* returned is as long as the input, and it holds, in some order, the value
\* each invocation returned and {"error": message} for each one that raised.
C22_BatchOneResultPerChunk ==
  /\ phase \in {"running", "returned"}
  /\ Len(batch_results) = Cardinality(folded)
  /\ ~ENABLED NextBatch => phase = "returned"
  /\ phase = "returned" =>
       /\ Len(batch_results) = Len(code_chunks)
       /\ \E f \in [Chunks -> Chunks] :
            /\ \A a, b \in Chunks : a # b => f[a] # f[b]
            /\ \A i \in Chunks : batch_results[i] = BatchExpected(f[i])

C22_Witness ==
  /\ phase = "returned"
  /\ Len(code_chunks) = 2
  /\ result[1] = ExcOutcome(ExcTimeout)
  /\ result[2] = ValueOutcome(FullDoc)
  /\ batch_results = <<FullDoc, [error |-> JStr(ExcTimeout.msg)]>>

\* One thread at a time is between the test for the target and the end of
\* Repo.clone_from, and it is the holder of the class lock.
OneUnderLock ==
  /\ Cardinality({t \in Threads : cl_pc[t] \in {"locked", "cloning"}}) <= 1
  /\ \A t \in Threads : cl_pc[t] \in {"locked", "cloning"} <=> cl_lock = t

\* As long as every Repo.clone_from has created the target, every call that
\* has ended has returned the target directory.
AllReturnUnlessCloneFails ==
  cl_failed = 0 =>
    /\ \A t \in Threads :
         cl_pc[t] \notin {"idle", "waiting", "locked", "cloning"} =>
           cl_pc[t] = "returned" /\ cl_ret[t] = TargetDir
    /\ ~ENABLED NextClone => \A t \in Threads : cl_pc[t] = "returned"

\* C23: the test for the target and the clone run under the class lock, one
\* thread at a time; the repository is cloned at most once; a call that
\* returns gives the target directory, which is there; as long as every
\* Repo.clone_from has created the target, every call that has ended has
\* returned, and no call made when the target was there (the directory of a
\* clone in progress included) has cloned; and a call that finds the target at
\* its test, under the lock, returns it without a clone, while only a call
\* that finds no target starts Repo.clone_from.
C23_CloneOncePerTarget ==
  /\ [](/\ OneUnderLock
        /\ cl_clones <= 1
        /\ cl_clones = 1 => target_exists
        /\ \A t \in Threads : cl_pc[t] = "returned" => cl_ret[t] = TargetDir /\ target_exists
        /\ Cardinality({t \in Threads : cl_pc[t] = "raised"}) = cl_failed
        /\ ~ENABLED NextClone => \A t \in Threads : cl_pc[t] \in {"returned", "raised"}
        /\ AllReturnUnlessCloneFails
        /\ cl_failed = 0 =>
             \A t \in Threads :
               (cl_seen[t] /\ cl_pc[t] # "idle") => cl_pc[t] \notin {"cloning", "raised"})
  /\ [][\A t \in Threads :
         /\ (cl_pc[t] = "locked" /\ target_exists /\ cl_pc'[t] # "locked") =>
              /\ cl_pc'[t] = "returned"
              /\ cl_ret'[t] = TargetDir
              /\ target_exists'
              /\ cl_clones' = cl_clones
              /\ cl_failed' = cl_failed
         /\ (cl_pc[t] # "cloning" /\ cl_pc'[t] = "cloning") =>
              cl_pc[t] = "locked" /\ ~target_exists]_vars

\* Every thread has returned the target directory after one clone; one of them
\* called while the directory of the clone in progress was there and returned
\* without a clone.
C23_Witness ==
  /\ cl_clones = 1
  /\ cl_failed = 0
  /\ \A t \in Threads : cl_pc[t] = "returned" /\ cl_ret[t] = TargetDir
  /\ \E t \in Threads : cl_seen[t]
  /\ \E t \in Threads : ~cl_seen[t]

\* The aggregate extract returns for the results of the chunks: chunk c and
\* the ones after it folded into k.
RECURSIVE SyncAggregate(_, _)
SyncAggregate(k, c) ==
  IF c > Len(code_chunks) THEN k
  ELSE SyncAggregate(
         IF result[c].kind = "exc"
         THEN FoldException(k, code_chunks[c], result[c].exc)
         ELSE FoldResult(k, code_chunks[c], result[c].value).knowledge,
         c + 1)

\* C24 (as claimed): the aggregate extract_async returns has the content of
\* the aggregate extract returns for the same chunks and the same outcome of
\* every chunk: the same entries with the same fields in overview, methods,
\* complexity and notes, compared as sets.
C24_AsyncSameContentAsSync ==
  (mode = "async" /\ phase = "returned") =>
    Content(knowledge) = Content(SyncAggregate(EmptyKnowledge, 1))

====
